---- MODULE Spec2Model ----
(***************************************************************************)
(* Filing content extraction and summarization pipeline of                 *)
(* opening-bell-backend: the Celery task process_filing_content, the three *)
(* form-specific extractors and the summary generator, over a record store *)
(* accessed through per-task SQLAlchemy sessions.                          *)
(*                                                                         *)
(* Store semantics: the engine is PostgreSQL (database.py), READ COMMITTED.*)
(* A session sees the committed rows plus its own pending (autoflushed)    *)
(* rows; session.commit() publishes every pending change of the session,   *)
(* session.rollback() discards them.                                       *)
(***************************************************************************)
EXTENDS Integers, FiniteSets, Sequences, TLC

(* ---------------------------------------------------------------- values *)

\* Python None / a present value v, for nullable columns and attributes.
None == << >>
Some(v) == << v >>
\* Python truthiness of a nullable number / string.
TruthyNum(o) == o # None /\ o[1] # 0
TruthyStr(o) == o # None /\ o[1] # ""
\* A numeric attribute of an in-memory object that holds a str (such as "91")
\* instead of a float: SQLModel table classes do not validate on construction.
\* The column is a float column, so the stored value is the number v.
Text(v) == << v, "str" >>
IsFloat(o) == Len(o) = 1
Stored(o) == IF o = None THEN None ELSE Some(o[1])

\* Worker slots that execute process_filing_content concurrently.
Runs == {1, 2}
\* Rows of edgar_filings, and an id that matches no row.
FilingIds == {1, 2}
MissingIds == {3}
\* Bound on the number of process_filing_content invocations in a behaviour.
MaxCalls == 2

FinancialForms == {"10-K", "10-Q"}
InsiderForms == {"4", "4/A"}
EventForms == {"8-K", "6-K"}
OtherForms == {"S-1"}
Forms == FinancialForms \cup InsiderForms \cup EventForms \cup OtherForms
\* The first filing takes every form type, the second one of these.
SecondForms == {"10-K"}

VARIABLES
    filings,     \* committed edgar_filings rows, by id
    metrics,     \* committed edgar_financial_metrics rows
    insiders,    \* committed edgar_insider_transactions rows
    events,      \* committed edgar_corporate_events rows
    summaries,   \* committed edgar_filing_summaries rows
    calls,       \* invocations so far; also the wall clock (datetime.now())
    task,        \* per worker: the ordinal of the invocation it executes
    pc,          \* per worker: position inside process_filing_content
    arg,         \* per worker: the filing_id argument
    pend,        \* per worker: rows added to the session and not yet committed
    dirty,       \* per worker: modified attributes of the loaded EdgarFiling
    snap,        \* per worker: existing_transactions read by the insider extractor
    local,       \* per worker: target_filing, the extractor's branch, transaction_data
    result,      \* per worker: the dict returned by the last invocation
    overlap,     \* per filing: two invocations for it have been active at once
    callsOn,     \* per filing: invocations for it so far
    probe,       \* a function of the pipeline applied on its own: input, result
    queue        \* per filing: tasks dispatched by the sweep and not yet started

store == <<filings, metrics, insiders, events, summaries>>
vars == <<filings, metrics, insiders, events, summaries, calls, task,
          pc, arg, pend, dirty, snap, local, result, overlap, callsOn, probe, queue>>

NoPending == [metrics |-> {}, insiders |-> {}, events |-> {}, summaries |-> {}]
Clean == [is_processed |-> None, processed_at |-> None, processing_error |-> None]
NoResult == [status |-> "none", message |-> "none"]
NoData == [transaction_type |-> "UNKNOWN", shares |-> 0, price_per_share |-> None,
           total_value |-> None, is_large_transaction |-> FALSE, is_executive |-> FALSE]
NoLocal == [target |-> "none", branch |-> "none", data |-> NoData]
NoProbe == [fn |-> "none", in |-> None, out |-> None]

\* The rows of a table that belong to one filing:
\* select(T).where(T.filing_id == filing_id).
OfFiling(rows, f) == {x \in rows : x.filing_id = f}

(* --------------------------------------------------------------- session *)

\* VisibleInsiders with the committed rows left out: the query answers from
\* the session's own rows only.
VisibleInsidersOwnRows(r) == pend[r].insiders

\* What a query of worker r sees in each table: committed rows and the rows
\* the session has flushed itself.
VisibleMetrics(r) == metrics \cup pend[r].metrics
VisibleInsiders(r) == insiders \cup pend[r].insiders
VisibleEvents(r) == events \cup pend[r].events
VisibleSummaries(r) == summaries \cup pend[r].summaries

\* The filing row after the session's modified attributes are written.
ApplyDirty(row, d) ==
    [row EXCEPT
        !.is_processed = IF d.is_processed = None THEN @ ELSE d.is_processed[1],
        !.processed_at = IF d.processed_at = None THEN @ ELSE d.processed_at,
        !.processing_error = IF d.processing_error = None THEN @ ELSE d.processing_error]

\* The row as the float columns of edgar_financial_metrics hold it, which is
\* what another session loads.
StoredMetrics(m) ==
    [m EXCEPT !.revenue = Stored(@), !.net_income = Stored(@), !.eps = Stored(@),
              !.total_assets = Stored(@), !.total_liabilities = Stored(@),
              !.cash_and_equivalents = Stored(@), !.operating_cash_flow = Stored(@)]

\* Commit that writes the modified attributes to every filing row.
CommitEveryFiling(r, p, d, deleted) ==
    /\ metrics' = metrics \cup {StoredMetrics(m) : m \in p.metrics}
    /\ insiders' = (insiders \ deleted) \cup p.insiders
    /\ events' = events \cup p.events
    /\ summaries' = summaries \cup p.summaries
    /\ filings' = IF arg[r] \in FilingIds
                  THEN [f \in FilingIds |-> ApplyDirty(filings[f], d)]
                  ELSE filings
    /\ pend' = [pend EXCEPT ![r] = NoPending]
    /\ dirty' = [dirty EXCEPT ![r] = Clean]

\* session.commit(): every pending row and modified attribute becomes visible
\* to the other sessions; `deleted` are the rows passed to session.delete().
Commit(r, p, d, deleted) ==
    /\ metrics' = metrics \cup {StoredMetrics(m) : m \in p.metrics}
    /\ insiders' = (insiders \ deleted) \cup p.insiders
    /\ events' = events \cup p.events
    /\ summaries' = summaries \cup p.summaries
    /\ filings' = IF arg[r] \in FilingIds
                  THEN [filings EXCEPT ![arg[r]] = ApplyDirty(@, d)]
                  ELSE filings
    /\ pend' = [pend EXCEPT ![r] = NoPending]
    /\ dirty' = [dirty EXCEPT ![r] = Clean]

\* session.rollback(): pending rows and modified attributes are discarded.
Rollback(r) ==
    /\ pend' = [pend EXCEPT ![r] = NoPending]
    /\ dirty' = [dirty EXCEPT ![r] = Clean]
    /\ UNCHANGED store

(* ----------------------------------------------- financial metrics (10-K) *)

\* The seven facts of a FinancialMetrics row.
FactNames == {"revenue", "net_income", "eps", "total_assets", "total_liabilities",
              "cash_and_equivalents", "operating_cash_flow"}

Facts(rev, ni, eps, rest) ==
    [revenue |-> rev, net_income |-> ni, eps |-> eps,
     total_assets |-> rest, total_liabilities |-> rest,
     cash_and_equivalents |-> rest, operating_cash_flow |-> rest]

\* What a strategy can return for a filing handle: a FinancialMetrics object
\* with these facts (fully, partially or not populated).
MetricsSamples == {Facts(Some(91), Some(23), Some(2), Some(7)),
                   Facts(Some(91), None, None, None),
                   Facts(None, None, None, None)}

\* _extract_metrics_from_xbrl / _extract_metrics_from_obj: None when the
\* handle has no statements / no financials accessor or reading them raises
\* (both swallow every exception), else a FinancialMetrics object.
StrategyResults == {None} \cup {Some(m) : m \in MetricsSamples}
\* _extract_metrics_from_obj copies the attributes of financials() as they
\* are (getattr, lines 64-70), so a fact can be a value that is not a float;
\* _extract_metrics_from_xbrl passes every fact through float().
ObjStrategyResults ==
    StrategyResults \cup {Some(Facts(Text(91), Some(23), Some(2), Some(7)))}

\* A value that is not a finite float, as a cell of a statement table or an
\* attribute of financials() can hold it: float NaN ("nan"), float infinity
\* ("inf"), the empty string ("empty"), text that is no number such as "N/A"
\* ("words"), and text such as "1.2.3" or "2023-12-31" that consists of digits,
\* dots and dashes but that float() rejects ("dotted"). Text(v) is the text of
\* the number v.
Cell(kind) == << 0, kind >>

\* is_valid_numeric_value(value): every int or float passes, NaN and infinity
\* included (isinstance, line 130); a str passes when it is all digits once
\* '.', '-', 'e' and 'E' are removed.
is_valid_numeric_value(value) ==
    IF value = None \/ value = Cell("empty") THEN FALSE
    ELSE IF IsFloat(value) \/ value \in {Cell("nan"), Cell("inf")} THEN TRUE
    ELSE value # Cell("words")

\* float(value) raises ValueError.
float_raises(value) == value \in {Cell("dotted"), Cell("words"), Cell("empty")}
\* float(value) for a float or the text of a number.
to_float(value) == IF value \in {Cell("nan"), Cell("inf")} THEN value ELSE Some(value[1])

\* A statement DataFrame: rows with a label and one cell per period column.
\* The period columns are named by their dates, so sorted() orders them in
\* time: column 1 is the older period, column 2 the most recent one.
PeriodColumns == {1, 2}
StatementRow(label, older, latest) == [label |-> label, cells |-> <<older, latest>>]

\* df['label'].str.contains(label, case=False): the synonyms of net_income
\* (line 46) that occur in the row labels the model draws from.
NetIncomeLabels == <<"Net Income", "Net Income Loss", "Profit Loss">>
RowLabels == {"Net Income", "Net Income Loss", "Profit Loss", "Operating Expenses"}
LabelContains(text, label) ==
    CASE text = "Net Income" -> label = "Net Income"
      [] text = "Net Income Loss" -> label \in {"Net Income", "Net Income Loss"}
      [] text = "Profit Loss" -> label = "Profit Loss"
      [] OTHER -> FALSE

\* get_numeric_columns(df)
get_numeric_columns(df) ==
    {col \in PeriodColumns :
        \E i \in 1..Len(df) : is_valid_numeric_value(df[i].cells[col])}

\* get_latest_numeric_value(df, rows); rows are the indices of the matching
\* rows, in the order of the table.
get_latest_numeric_value(df, rows) ==
    LET date_columns == get_numeric_columns(df)
    IN  IF date_columns = {} THEN None
        ELSE LET latest_col == CHOOSE c \in date_columns : \A o \in date_columns : o <= c
                 valid == {i \in rows : is_valid_numeric_value(df[i].cells[latest_col])}
             IN  IF valid = {} THEN None
                 ELSE df[CHOOSE i \in valid : \A j \in valid : i <= j].cells[latest_col]

\* extract_metric(df, labels), from the k-th label on: the float of the first
\* label whose rows yield a value that float() accepts, else None.
RECURSIVE extract_metric_from(_, _, _)
extract_metric_from(df, labels, k) ==
    IF k > Len(labels) THEN None
    ELSE LET rows == {i \in 1..Len(df) : LabelContains(df[i].label, labels[k])}
             value == IF rows = {} THEN None ELSE get_latest_numeric_value(df, rows)
         IN  IF value # None /\ ~float_raises(value) THEN to_float(value)
             ELSE extract_metric_from(df, labels, k + 1)

extract_metric(df, labels) == extract_metric_from(df, labels, 1)

\* _extract_metrics_from_obj, lines 62-71: each fact is the attribute of
\* financials() as it is, None when the attribute is missing.
extract_metrics_from_obj(financials) ==
    Facts(financials.revenue, financials.net_income, financials.eps, financials.rest)

MetricsRow(id, f, facts, err) ==
    [id |-> id, filing_id |-> f,
     revenue |-> facts.revenue, net_income |-> facts.net_income, eps |-> facts.eps,
     total_assets |-> facts.total_assets,
     total_liabilities |-> facts.total_liabilities,
     cash_and_equivalents |-> facts.cash_and_equivalents,
     operating_cash_flow |-> facts.operating_cash_flow,
     extraction_error |-> err]

\* _create_empty_metrics(session, filing_id, error_message=None)
create_empty_metrics(id, f, error_message) ==
    MetricsRow(id, f, Facts(None, None, None, None), error_message)

\* existing_metrics of extract_financial_metrics.
ExistingMetrics(r, f) == OfFiling(VisibleMetrics(r), f)

\* extract_financial_metrics: the branch the call takes, given what the two
\* strategies return and whether storing the result raised: "noop" (a record
\* exists), "raised" (the handler of lines 30-31), "stored", "empty".
financial_branch(r, f, xbrl, obj, raised) ==
    IF ExistingMetrics(r, f) # {} THEN "noop"
    ELSE IF raised THEN "raised"
    ELSE IF xbrl # None \/ obj # None THEN "stored"
    ELSE "empty"

\* extract_financial_metrics without the empty record: nothing is stored when
\* both strategies fail.
extract_financial_metrics_NoEmpty(r, f, id, xbrl, obj, raised) ==
    LET branch == financial_branch(r, f, xbrl, obj, raised)
        m == IF xbrl # None THEN xbrl ELSE obj
    IN  CASE branch = "raised" -> {create_empty_metrics(id, f, Some("extraction raised"))}
          [] branch = "stored" -> {MetricsRow(id, f, m[1], None)}
          [] OTHER -> {}

\* extract_financial_metrics: the rows the call adds to the session.
extract_financial_metrics(r, f, id, xbrl, obj, raised) ==
    LET branch == financial_branch(r, f, xbrl, obj, raised)
        m == IF xbrl # None THEN xbrl ELSE obj
    IN  CASE branch = "noop" -> {}
          [] branch = "raised" -> {create_empty_metrics(id, f, Some("extraction raised"))}
          [] branch = "stored" -> {MetricsRow(id, f, m[1], None)}
          [] OTHER -> {create_empty_metrics(id, f, None)}

(* --------------------------------------------------- corporate events (8-K) *)

MaterialOperations == {"CEO_CHANGE", "MERGER", "LAYOFFS", "RESTRUCTURING"}
MaterialFinancials == {"EARNINGS", "DIVIDEND", "STOCK_SPLIT", "FINANCING"}

\* The generic event object target_filing.obj() returns: every attribute is
\* absent/None or set.
EventObj(et, ty, mat, ops, fin) ==
    [event_type |-> et, type |-> ty, is_material |-> mat,
     affects_operations |-> ops, affects_financials |-> fin]

EventSamples == {EventObj(None, None, None, None, None),
                 EventObj(Some("MERGER"), None, Some(FALSE), None, None),
                 EventObj(None, Some("DIVIDEND"), None, Some(TRUE), Some(FALSE))}

\* getattr(o, a, None) or getattr(o, b, None)
FirstTruthyStr(a, b) == IF TruthyStr(a) THEN a ELSE IF TruthyStr(b) THEN b ELSE None

\* EventRow that applies the defaults whatever the event object gives.
EventRowDefaultsOnly(id, f, o) ==
    LET et0 == FirstTruthyStr(o.event_type, o.type)
        event_type == IF et0 # None THEN et0[1] ELSE "CORPORATE_EVENT"
    IN  [id |-> id, filing_id |-> f, event_type |-> event_type,
         is_material |-> TRUE,
         affects_operations |-> event_type \in MaterialOperations,
         affects_financials |-> event_type \in MaterialFinancials]

\* Lines 20-49 of extract_corporate_events: the CorporateEvent built from the
\* event object.
EventRow(id, f, o) ==
    LET et0 == FirstTruthyStr(o.event_type, o.type)
        event_type == IF et0 # None THEN et0[1] ELSE "CORPORATE_EVENT"
        is_material == IF o.is_material = None THEN TRUE ELSE o.is_material[1]
        affects_operations == IF o.affects_operations = None
                              THEN event_type \in MaterialOperations
                              ELSE o.affects_operations[1]
        affects_financials == IF o.affects_financials = None
                              THEN event_type \in MaterialFinancials
                              ELSE o.affects_financials[1]
    IN  [id |-> id, filing_id |-> f, event_type |-> event_type,
         is_material |-> is_material,
         affects_operations |-> affects_operations,
         affects_financials |-> affects_financials]

\* existing_events of extract_corporate_events.
ExistingEvents(r, f) == OfFiling(VisibleEvents(r), f)

\* extract_corporate_events: the branch the call takes; `o` is None when
\* reading or building the event raised (the exception is swallowed).
events_branch(r, f, o) ==
    IF ExistingEvents(r, f) # {} THEN "noop"
    ELSE IF o = None THEN "failed"
    ELSE "stored"

\* extract_corporate_events that leaves a default event when reading the event
\* object failed.
extract_corporate_events_Placeholder(r, f, id, o) ==
    CASE events_branch(r, f, o) = "stored" -> {EventRow(id, f, o[1])}
      [] events_branch(r, f, o) = "failed" ->
            {EventRow(id, f, EventObj(None, None, None, None, None))}
      [] OTHER -> {}

\* extract_corporate_events: the rows the call adds to the session.
extract_corporate_events(r, f, id, o) ==
    IF events_branch(r, f, o) = "stored" THEN {EventRow(id, f, o[1])} ELSE {}

(* ------------------------------------------------ insider transactions (4) *)

Abs(n) == IF n < 0 THEN -n ELSE n

\* The title strings the model draws from, with the lower-cased keywords each
\* contains and its upper-cased form (str.lower(), `in`, str.upper()).
Titles == {"Chief Executive Officer", "CFO and Director", "Director", "VP Sales",
           "President and CEO", "Chairman and President", "Executive Chairman",
           "chief financial officer", "General Counsel"}
KeywordsIn(title) ==
    CASE title = "Chief Executive Officer" -> {"chief executive"}
      [] title = "CFO and Director" -> {"cfo", "director"}
      [] title = "Director" -> {"director"}
      [] title = "President and CEO" -> {"president", "ceo"}
      [] title = "Chairman and President" -> {"chairman", "president"}
      [] title = "Executive Chairman" -> {"chairman"}
      [] title = "chief financial officer" -> {"chief financial"}
      [] OTHER -> {}
UpperTitle(title) ==
    CASE title = "Chief Executive Officer" -> "CHIEF EXECUTIVE OFFICER"
      [] title = "CFO and Director" -> "CFO AND DIRECTOR"
      [] title = "Director" -> "DIRECTOR"
      [] title = "VP Sales" -> "VP SALES"
      [] title = "President and CEO" -> "PRESIDENT AND CEO"
      [] title = "Chairman and President" -> "CHAIRMAN AND PRESIDENT"
      [] title = "Executive Chairman" -> "EXECUTIVE CHAIRMAN"
      [] title = "chief financial officer" -> "CHIEF FINANCIAL OFFICER"
      [] title = "General Counsel" -> "GENERAL COUNSEL"
      [] OTHER -> title

\* _determine_insider_relationship that looks for the five role names only.
determine_insider_relationship_NamesOnly(position) ==
    IF ~TruthyStr(position) THEN None
    ELSE LET kw == KeywordsIn(position[1])
         IN  IF "ceo" \in kw THEN Some("CEO")
             ELSE IF "cfo" \in kw THEN Some("CFO")
             ELSE IF "director" \in kw THEN Some("DIRECTOR")
             ELSE IF "president" \in kw THEN Some("PRESIDENT")
             ELSE IF "chairman" \in kw THEN Some("CHAIRMAN")
             ELSE Some(UpperTitle(position[1]))

\* _determine_insider_relationship(position)
determine_insider_relationship(position) ==
    IF ~TruthyStr(position) THEN None
    ELSE LET kw == KeywordsIn(position[1])
         IN  IF "ceo" \in kw \/ "chief executive" \in kw THEN Some("CEO")
             ELSE IF "cfo" \in kw \/ "chief financial" \in kw THEN Some("CFO")
             ELSE IF "director" \in kw THEN Some("DIRECTOR")
             ELSE IF "president" \in kw THEN Some("PRESIDENT")
             ELSE IF "chairman" \in kw THEN Some("CHAIRMAN")
             ELSE Some(UpperTitle(position[1]))

ExecutiveRelationships == {"CEO", "CFO", "DIRECTOR", "PRESIDENT", "CHAIRMAN"}

\* str.upper() on the transaction-type and code strings the model draws from:
\* the single letters and a few words.
LowerLetters == <<"a", "b", "c", "d", "e", "f", "g", "h", "i", "j", "k", "l", "m",
                  "n", "o", "p", "q", "r", "s", "t", "u", "v", "w", "x", "y", "z">>
UpperLetters == <<"A", "B", "C", "D", "E", "F", "G", "H", "I", "J", "K", "L", "M",
                  "N", "O", "P", "Q", "R", "S", "T", "U", "V", "W", "X", "Y", "Z">>
Upper(s) ==
    CASE \E i \in 1..Len(LowerLetters) : LowerLetters[i] = s ->
            UpperLetters[CHOOSE i \in 1..Len(LowerLetters) : LowerLetters[i] = s]
      [] s = "purchase" -> "PURCHASE"
      [] s = "sale" -> "SALE"
      [] s = "unknown" -> "UNKNOWN"
      [] s = "award" -> "AWARD"
      [] OTHER -> s

\* CodeToType that knows the seven codes of the table only.
CodeToTypeTableOnly(code) ==
    CASE code = "P" -> "PURCHASE"
      [] code = "S" -> "SALE"
      [] code = "A" -> "GRANT"
      [] code = "M" -> "EXERCISE"
      [] code = "D" -> "DISPOSITION"
      [] code = "G" -> "GIFT"
      [] code = "V" -> "VOLUNTARY"
      [] OTHER -> "UNKNOWN"

\* The transaction-code table of _extract_transaction_data.
CodeToType(code) ==
    CASE code = "P" -> "PURCHASE"
      [] code = "S" -> "SALE"
      [] code = "A" -> "GRANT"
      [] code = "M" -> "EXERCISE"
      [] code = "D" -> "DISPOSITION"
      [] code = "G" -> "GIFT"
      [] code = "V" -> "VOLUNTARY"
      [] OTHER -> Upper(code)

\* A row of form4.market_trades / form4.to_dataframe(): a column that is
\* missing or empty is None.
Row(sh, pr, tt, code, ins, pos) ==
    [Shares |-> sh, Price |-> pr, TransactionType |-> tt, Code |-> code,
     Insider |-> ins, Position |-> pos]

\* first_row.get('Shares', 0)
GetShares(row) == IF row.Shares = None THEN 0 ELSE row.Shares[1]

\* The Form 4 object target_filing.obj() returns. market_trades is None or a
\* sequence of rows; to_dataframe is None when the attribute is missing, else
\* whether the call raises and the rows it returns; reporting_owners is None,
\* an object with name/title attributes, or an indexable collection of such.
Form4(name, pos, roName, roRel, owners, st, mt, df) ==
    [insider_name |-> name, position |-> pos,
     reporting_owner_name |-> roName, reporting_owner_relationship |-> roRel,
     reporting_owners |-> owners,
     shares_traded |-> st, market_trades |-> mt, to_dataframe |-> df]

Owner(name, title) == [name |-> name, title |-> title]
\* reporting_owners as a single object / as a collection.
OwnersObject(name, title) ==
    [has_name |-> TRUE, has_title |-> TRUE, name |-> name, title |-> title,
     items |-> << >>]
OwnersList(items) ==
    [has_name |-> FALSE, has_title |-> FALSE, name |-> None, title |-> None,
     items |-> items]
\* bool(form4.reporting_owners)
TruthyOwners(o) == o # None /\ (o[1].has_name \/ o[1].has_title \/ Len(o[1].items) > 0)

DataFrame(raises, rows) == [raises |-> raises, rows |-> rows]

\* Lines 230-340 and 353-367 of _extract_transaction_data, one source after
\* the other; each stage takes the values the earlier stages left.
FromSharesTraded(form4) ==
    IF form4.shares_traded # None
    THEN [shares |-> Abs(form4.shares_traded[1]),
          transaction_type |-> IF form4.shares_traded[1] > 0 THEN "PURCHASE" ELSE "SALE",
          price_per_share |-> None, total_value |-> None]
    ELSE [shares |-> 0, transaction_type |-> "UNKNOWN",
          price_per_share |-> None, total_value |-> None]

\* One tabular source (first row), `isMarket` for market_trades, which also
\* reads the transaction code.
FromRow(d, row, isMarket) ==
    LET shares == IF d.shares = 0 THEN Abs(GetShares(row)) ELSE d.shares
        price == IF ~TruthyNum(d.price_per_share) THEN row.Price ELSE d.price_per_share
        t1 == IF d.transaction_type = "UNKNOWN" /\ TruthyStr(row.TransactionType)
              THEN Upper(row.TransactionType[1])
              ELSE d.transaction_type
        t2 == IF isMarket /\ t1 = "UNKNOWN" /\ TruthyStr(row.Code)
              THEN CodeToType(row.Code[1])
              ELSE t1
        total == IF shares # 0 /\ TruthyNum(price)
                 THEN Some(shares * price[1])
                 ELSE d.total_value
    IN  [shares |-> shares, transaction_type |-> t2,
         price_per_share |-> price, total_value |-> total]

FromMarketTrades(form4, d) ==
    IF form4.market_trades # None /\ Len(form4.market_trades[1]) > 0
    THEN FromRow(d, form4.market_trades[1][1], TRUE)
    ELSE d

FromDataFrame(form4, d) ==
    IF (d.shares = 0 \/ d.transaction_type = "UNKNOWN") /\ form4.to_dataframe # None
    THEN IF form4.to_dataframe[1].raises \/ Len(form4.to_dataframe[1].rows) = 0
         THEN d
         ELSE FromRow(d, form4.to_dataframe[1].rows[1], FALSE)
    ELSE d

FinalSharesTraded(form4, d) ==
    IF d.shares = 0 /\ form4.shares_traded # None
    THEN [d EXCEPT !.shares = Abs(form4.shares_traded[1]),
                   !.transaction_type =
                       IF @ = "UNKNOWN"
                       THEN (IF form4.shares_traded[1] > 0 THEN "PURCHASE" ELSE "SALE")
                       ELSE @]
    ELSE d

\* The thresholds of is_large_transaction.
LargeValue == 100000
LargeShares == 10000

\* _extract_transaction_data(form4, insider_relationship)
extract_transaction_data(form4, insider_relationship) ==
    LET d == FinalSharesTraded(form4,
                 FromDataFrame(form4, FromMarketTrades(form4, FromSharesTraded(form4))))
        shares == d.shares
        price == d.price_per_share
        total == IF shares # 0 /\ TruthyNum(price) /\ ~TruthyNum(d.total_value)
                 THEN Some(shares * price[1])
                 ELSE d.total_value
    IN  [transaction_type |-> d.transaction_type,
         shares |-> shares,
         price_per_share |-> price,
         total_value |-> total,
         is_large_transaction |->
             (TruthyNum(total) /\ total[1] > LargeValue)
             \/ (shares # 0 /\ shares > LargeShares),
         is_executive |->
             IF TruthyStr(insider_relationship)
             THEN insider_relationship[1] \in ExecutiveRelationships
             ELSE FALSE]

\* The dates _extract_transaction_data can read: the 'Date' column of the first
\* row of market_trades and of to_dataframe(), form4.reporting_period and
\* form4.filing_date, each None when missing or empty. The values are days.
Dates(market, frame, reporting_period, filing_date) ==
    [market |-> market, frame |-> frame, reporting_period |-> reporting_period,
     filing_date |-> filing_date]

\* Lines 254-258, 296-323 and 341-351: transaction_date. The tabular export is
\* read only under the condition of line 296.
transaction_date(form4, dates) ==
    LET d1 == FromMarketTrades(form4, FromSharesTraded(form4))
        t1 == IF form4.market_trades # None /\ Len(form4.market_trades[1]) > 0
              THEN dates.market ELSE None
        frameRead == /\ (d1.shares = 0 \/ d1.transaction_type = "UNKNOWN")
                     /\ form4.to_dataframe # None
                     /\ ~form4.to_dataframe[1].raises
                     /\ Len(form4.to_dataframe[1].rows) > 0
        t2 == IF t1 = None /\ frameRead THEN dates.frame ELSE t1
        t3 == IF t2 = None THEN dates.reporting_period ELSE t2
    IN  IF t3 = None THEN dates.filing_date ELSE t3

\* Lines 65-84: the name / title of form4.reporting_owners, or of its first
\* element when it is a collection.
OwnersName(form4) ==
    LET ro == form4.reporting_owners[1]
    IN  IF ro.has_name THEN ro.name
        ELSE IF Len(ro.items) > 0 THEN ro.items[1].name
        ELSE None
OwnersTitle(form4) ==
    LET ro == form4.reporting_owners[1]
    IN  IF ro.has_title THEN ro.title
        ELSE IF Len(ro.items) > 0 THEN ro.items[1].title
        ELSE None

\* Lines 86-104: the 'Insider' / 'Position' column of to_dataframe()'s first
\* row; `cur` is kept when the call raises or the column is missing.
FrameColumn(form4, cur, column) ==
    LET df == form4.to_dataframe[1]
    IN  IF df.raises THEN cur
        ELSE IF Len(df.rows) = 0 THEN cur
        ELSE IF column = "Insider"
             THEN (IF df.rows[1].Insider = None THEN cur ELSE df.rows[1].Insider)
             ELSE (IF df.rows[1].Position = None THEN cur ELSE df.rows[1].Position)

\* Lines 38-107 of extract_insider_transactions: insider_name.
ResolveInsiderName(form4) ==
    LET n1 == form4.insider_name
        n2 == IF ~TruthyStr(n1) THEN form4.reporting_owner_name ELSE n1
        n3 == IF ~TruthyStr(n2) /\ TruthyOwners(form4.reporting_owners)
              THEN OwnersName(form4) ELSE n2
        t1 == form4.position
        t2 == IF ~TruthyStr(t1) THEN form4.reporting_owner_relationship ELSE t1
        t3 == IF ~TruthyStr(t2) /\ TruthyOwners(form4.reporting_owners)
              THEN OwnersTitle(form4) ELSE t2
        n4 == IF (~TruthyStr(n3) \/ ~TruthyStr(t3)) /\ form4.to_dataframe # None
                 /\ ~TruthyStr(n3)
              THEN FrameColumn(form4, n3, "Insider") ELSE n3
    IN  IF ~TruthyStr(n4) THEN Some("Unknown") ELSE n4

\* ResolveInsiderTitle without the tabular fallback.
ResolveInsiderTitleNoFrame(form4) ==
    LET t1 == form4.position
        t2 == IF ~TruthyStr(t1) THEN form4.reporting_owner_relationship ELSE t1
    IN  IF ~TruthyStr(t2) /\ TruthyOwners(form4.reporting_owners)
        THEN OwnersTitle(form4) ELSE t2

\* Lines 38-104 of extract_insider_transactions: insider_title.
ResolveInsiderTitle(form4) ==
    LET t1 == form4.position
        t2 == IF ~TruthyStr(t1) THEN form4.reporting_owner_relationship ELSE t1
        t3 == IF ~TruthyStr(t2) /\ TruthyOwners(form4.reporting_owners)
              THEN OwnersTitle(form4) ELSE t2
    IN  IF ~TruthyStr(t3) /\ form4.to_dataframe # None
        THEN FrameColumn(form4, t3, "Position") ELSE t3

InsiderRow(id, f, name, title, rel, d, err) ==
    [id |-> id, filing_id |-> f,
     insider_name |-> name, insider_title |-> title, insider_relationship |-> rel,
     transaction_type |-> d.transaction_type, shares |-> d.shares,
     price_per_share |-> d.price_per_share, total_value |-> d.total_value,
     is_large_transaction |-> d.is_large_transaction,
     is_executive |-> d.is_executive,
     extraction_error |-> err]

\* _create_empty_transaction that drops the error message.
create_empty_transaction_NoDiagnostic(id, f, error_message) ==
    InsiderRow(id, f, "Unknown", None, None, NoData, None)

\* _create_empty_transaction(session, filing_id, error_message)
create_empty_transaction(id, f, error_message) ==
    InsiderRow(id, f, "Unknown", None, None, NoData, Some(error_message))

\* IsValidTransaction that takes only purchases for valid.
IsValidTransactionPurchaseOnly(t) == t.shares > 0 /\ t.transaction_type = "PURCHASE"

\* Line 21: a stored transaction that is not a failed one.
IsValidTransaction(t) == t.shares > 0 /\ t.transaction_type # "UNKNOWN"

\* ExistingTransactions whose query matches no row.
ExistingTransactionsNone(r, f) == {}

\* Lines 16-18: existing_transactions.
ExistingTransactions(r, f) == OfFiling(VisibleInsiders(r), f)

\* PassesGate without the check of the share count.
PassesGateTypeOnly(d) == d.transaction_type # "UNKNOWN"

\* Lines 122-124: the validity gate on the extracted data.
PassesGate(d) == d.transaction_type # "UNKNOWN" /\ d.shares # 0

\* Lines 112-115: transaction_data for a Form 4 object.
TransactionData(form4) ==
    extract_transaction_data(form4,
        determine_insider_relationship(ResolveInsiderTitle(form4)))

\* Lines 34-150 of extract_insider_transactions: the row the call stores,
\* `obj` being None when target_filing.obj() raised and else the Form 4 object.
NewTransaction(id, f, obj) ==
    IF obj = None THEN create_empty_transaction(id, f, "extraction raised")
    ELSE LET form4 == obj[1]
             insider_name == ResolveInsiderName(form4)
             insider_title == ResolveInsiderTitle(form4)
             insider_relationship == determine_insider_relationship(insider_title)
             d == TransactionData(form4)
         IN  IF PassesGate(d)
             THEN InsiderRow(id, f, insider_name[1],
                             IF TruthyStr(insider_title) THEN insider_title ELSE None,
                             IF TruthyStr(insider_relationship)
                             THEN insider_relationship ELSE None,
                             [d EXCEPT !.shares = Abs(d.shares)], None)
             ELSE create_empty_transaction(id, f, "No valid shares data found")

\* The Form 4 objects the gateway can hand to a run.
NoOwners == None
NoFrame == None
Form4Samples ==
    {Form4(Some("Jane Doe"), Some("Chief Executive Officer"), None, None, NoOwners,
           Some(5000), Some(<<Row(Some(5000), Some(25), None, Some("P"), None, None)>>),
           NoFrame),
     Form4(None, None, None, None, NoOwners, Some(0), None, NoFrame),
     Form4(None, None, Some("John Roe"), None,
           Some(OwnersList(<<Owner(Some("J. Roe"), Some("Director"))>>)),
           Some(0), Some(<<Row(Some(100), None, None, Some("P"), None, None)>>),
           NoFrame),
     Form4(None, None, None, None, NoOwners, None,
           Some(<<Row(Some(100), Some(50), None, None, None, None)>>),
           Some(DataFrame(FALSE, <<Row(None, None, None, None,
                                      Some("Ann Poe"), Some("VP Sales"))>>)))}

(* ------------------------------------------------------ summary generator *)

\* Display formatting of a nullable number in key_metrics.
Display(o) == IF o = None THEN "N/A" ELSE "formatted"

\* Lines 74-76: x/1e9 and format(x, ".2f") raise for a value that is present
\* and not a number.
earnings_summary_raises(m) ==
    \E x \in {m.revenue, m.net_income, m.eps} : x # None /\ ~IsFloat(x)

\* importance_score is kept in tenths (8 for 0.8).
generate_earnings_summary(m) ==
    LET all == TruthyNum(m.revenue) /\ TruthyNum(m.net_income) /\ TruthyNum(m.eps)
        some == TruthyNum(m.revenue) \/ TruthyNum(m.net_income) \/ TruthyNum(m.eps)
    IN  [importance_score |-> IF all THEN 8 ELSE IF some THEN 6 ELSE 4,
         event_category |-> "EARNINGS",
         sentiment |-> IF all THEN "POSITIVE" ELSE "NEUTRAL",
         key_metrics |-> {<<"revenue", Display(m.revenue)>>,
                          <<"net_income", Display(m.net_income)>>,
                          <<"eps", Display(m.eps)>>}]

\* generate_insider_summary that reads only a sale as bearish.
generate_insider_summary_SaleOnly(t) ==
    [importance_score |-> IF t.is_executive THEN 7 ELSE 5,
     event_category |-> "INSIDER_TRADE",
     sentiment |-> IF t.transaction_type = "PURCHASE" THEN "POSITIVE"
                   ELSE IF t.transaction_type = "SALE" THEN "NEGATIVE" ELSE "NEUTRAL",
     key_metrics |-> {<<"shares", "formatted">>,
                      <<"value", Display(t.total_value)>>,
                      <<"price", Display(t.price_per_share)>>}]

generate_insider_summary(t) ==
    [importance_score |-> IF t.is_executive THEN 7 ELSE 5,
     event_category |-> "INSIDER_TRADE",
     sentiment |-> IF t.transaction_type = "PURCHASE" THEN "POSITIVE" ELSE "NEGATIVE",
     key_metrics |-> {<<"shares", "formatted">>,
                      <<"value", Display(t.total_value)>>,
                      <<"price", Display(t.price_per_share)>>}]

generate_event_summary(e) ==
    [importance_score |-> IF e.is_material THEN 8 ELSE 5,
     event_category |-> "CORPORATE_EVENT",
     sentiment |-> "NEUTRAL",
     key_metrics |-> {<<"event_type", e.event_type>>,
                      <<"is_material", IF e.is_material THEN "True" ELSE "False">>}]

generate_generic_summary(form) ==
    [importance_score |-> 3,
     event_category |-> "REGULATORY",
     sentiment |-> "NEUTRAL",
     key_metrics |-> {<<"filing_date", "formatted">>, <<"form_type", form>>}]

\* existing_summary of generate_filing_summary.
ExistingSummary(r, f) == OfFiling(VisibleSummaries(r), f)

\* RouteSummary that routes by the rows present and not by the form type.
RouteSummaryByFacts(form, fm, tx, ev) ==
    IF fm # {}
    THEN {IF earnings_summary_raises(m) THEN None
          ELSE Some(generate_earnings_summary(m)) : m \in fm}
    ELSE IF tx # {}
    THEN {Some(generate_insider_summary(t)) : t \in tx}
    ELSE IF ev # {}
    THEN {Some(generate_event_summary(e)) : e \in ev}
    ELSE {Some(generate_generic_summary(form))}

\* The routing of generate_filing_summary, lines 33-40, over the rows the three
\* queries returned. The queries carry no ORDER BY: .first() and [0] may be
\* any row of the filing. An element is Some(summary), or None when building
\* the summary raised.
RouteSummary(form, fm, tx, ev) ==
    IF form \in FinancialForms /\ fm # {}
    THEN {IF earnings_summary_raises(m) THEN None
          ELSE Some(generate_earnings_summary(m)) : m \in fm}
    ELSE IF form \in InsiderForms /\ tx # {}
    THEN {Some(generate_insider_summary(t)) : t \in tx}
    ELSE IF form \in EventForms /\ ev # {}
    THEN {Some(generate_event_summary(e)) : e \in ev}
    ELSE {Some(generate_generic_summary(form))}

\* Lines 21-40 for the session of worker r.
SummaryContents(r, f, form) ==
    RouteSummary(form, OfFiling(VisibleMetrics(r), f), OfFiling(VisibleInsiders(r), f),
                 OfFiling(VisibleEvents(r), f))

SummaryRow(id, f, c) ==
    [id |-> id, filing_id |-> f, importance_score |-> c.importance_score,
     event_category |-> c.event_category, sentiment |-> c.sentiment,
     key_metrics |-> c.key_metrics]

\* generate_filing_summary, given the rows the existence query returned and
\* the outcome c of building the summary: nothing is added when a summary
\* exists (lines 18-19) or when building it raised (lines 58-59).
filing_summary_rows(existing, id, f, c) ==
    IF existing # {} THEN {}
    ELSE IF c = None THEN {}
    ELSE {SummaryRow(id, f, c[1])}

\* generate_filing_summary: the rows the call adds to the session of worker r.
generate_filing_summary(r, f, id, c) ==
    filing_summary_rows(ExistingSummary(r, f), id, f, c)

(* ----------------------------------------------------------- orchestrator *)

Active(r) == pc[r] # "idle"

\* The primary key a row added by worker r receives. The code never orders by
\* id, so only its uniqueness within a table matters: an invocation adds at
\* most one row to each table, and its ordinal identifies that row.
NewId(r) == task[r]

\* get_filing_processor that falls back to the event extractor for a form type
\* the table does not list.
get_filing_processor_EventsByDefault(form) ==
    IF form \in FinancialForms THEN "extract_financial_metrics"
    ELSE IF form \in InsiderForms THEN "extract_insider_transactions"
    ELSE "extract_corporate_events"

\* get_filing_processor(form_type)
get_filing_processor(form) ==
    IF form \in FinancialForms THEN "extract_financial_metrics"
    ELSE IF form \in InsiderForms THEN "extract_insider_transactions"
    ELSE IF form \in EventForms THEN "extract_corporate_events"
    ELSE "none"

Returned(status, message) == [status |-> status, message |-> message]

\* LoadOutcome without the is_processed check.
LoadOutcomeNoShortCircuit(f) == IF f \notin FilingIds THEN "not_found" ELSE "process"

\* process_filing_content lines 29-38: what loading the filing decides.
LoadOutcome(f) ==
    IF f \notin FilingIds THEN "not_found"
    ELSE IF filings[f].is_processed THEN "already_processed"
    ELSE "process"

\* process_filing_content lines 28-38 for the invocation with the given
\* ordinal: the task starts on the first free worker, loads the filing and
\* returns at once when it is missing or already processed.
LoadFiling(r, f, ordinal) ==
    /\ pc[r] = "idle"
    /\ \A q \in Runs : q < r => Active(q)
    /\ task' = [task EXCEPT ![r] = ordinal]
    /\ arg' = [arg EXCEPT ![r] = f]
    /\ LET outcome == LoadOutcome(f)
       IN  CASE outcome = "not_found" ->
                  /\ result' = [result EXCEPT ![r] = Returned("error", "Filing not found")]
                  /\ UNCHANGED <<pc, overlap>>
             [] outcome = "already_processed" ->
                  /\ result' = [result EXCEPT ![r] = Returned("success", "Already processed")]
                  /\ UNCHANGED <<pc, overlap>>
             [] OTHER ->
                  /\ result' = [result EXCEPT ![r] = NoResult]
                  /\ pc' = [pc EXCEPT ![r] = "gateway"]
                  /\ overlap' = [overlap EXCEPT ![f] =
                         @ \/ \E q \in Runs \ {r} : Active(q) /\ arg[q] = f]
    /\ UNCHANGED <<probe, store, pend, dirty, snap, local>>

\* process_filing_content(filing_id), invoked by a caller with any id.
process_filing_content(r, f) ==
    /\ calls < MaxCalls
    /\ calls' = calls + 1
    /\ callsOn' = IF f \in FilingIds THEN [callsOn EXCEPT ![f] = @ + 1] ELSE callsOn
    /\ LoadFiling(r, f, calls + 1)
    /\ UNCHANGED queue

\* AfterGateway without the check of find_target_filing's result.
AfterGatewayCompanyOnly(outcome) == IF outcome = "no_company" THEN "finish" ELSE "extract"

\* _process_filing_content lines 62-67: the two early returns.
AfterGateway(outcome) == IF outcome = "found" THEN "extract" ELSE "finish"

\* _process_filing_content lines 61-67: create_edgar_company and
\* find_target_filing; either can come back empty.
ResolveGateway(r) ==
    /\ pc[r] = "gateway"
    /\ \E outcome \in {"no_company", "no_filing", "found"} :
          /\ local' = [local EXCEPT ![r].target = outcome]
          /\ pc' = [pc EXCEPT ![r] = AfterGateway(outcome)]
          /\ result' = IF AfterGateway(outcome) = "finish"
                       THEN [result EXCEPT ![r] =
                                Returned("error",
                                         IF outcome = "no_company"
                                         THEN "Failed to create EdgarTools company object"
                                         ELSE "Filing not found in EdgarTools")]
                       ELSE result
    /\ UNCHANGED <<probe, queue, store, calls, task, arg, pend, dirty, snap, overlap, callsOn>>

Form(r) == filings[arg[r]].form

\* processor(session, filing.id, target_filing) for 10-K / 10-Q.
ExtractFinancialMetrics(r) ==
    /\ pc[r] = "extract"
    /\ get_filing_processor(Form(r)) = "extract_financial_metrics"
    /\ \E xbrl \in StrategyResults, obj \in ObjStrategyResults, raised \in BOOLEAN :
          /\ pend' = [pend EXCEPT ![r].metrics =
                 @ \cup extract_financial_metrics(r, arg[r], NewId(r), xbrl, obj, raised)]
          /\ local' = [local EXCEPT ![r].branch =
                 financial_branch(r, arg[r], xbrl, obj, raised)]
    /\ pc' = [pc EXCEPT ![r] = "summary"]
    /\ UNCHANGED <<probe, queue, store, calls, task, arg, dirty, snap, result, overlap, callsOn>>

\* processor(...) for 8-K / 6-K.
ExtractCorporateEvents(r) ==
    /\ pc[r] = "extract"
    /\ get_filing_processor(Form(r)) = "extract_corporate_events"
    /\ \E o \in {None} \cup {Some(e) : e \in EventSamples} :
          /\ pend' = [pend EXCEPT ![r].events =
                 @ \cup extract_corporate_events(r, arg[r], NewId(r), o)]
          /\ local' = [local EXCEPT ![r].branch = events_branch(r, arg[r], o)]
    /\ pc' = [pc EXCEPT ![r] = "summary"]
    /\ UNCHANGED <<probe, queue, store, calls, task, arg, dirty, snap, result, overlap, callsOn>>

\* No processor for the form type: logged and skipped.
NoProcessor(r) ==
    /\ pc[r] = "extract"
    /\ get_filing_processor(Form(r)) = "none"
    /\ pc' = [pc EXCEPT ![r] = "summary"]
    /\ UNCHANGED <<probe, queue, store, calls, task, arg, pend, dirty, snap, local, result,
                   overlap, callsOn>>

\* extract_insider_transactions lines 16-25: read the existing transactions
\* and return when a valid one is among them.
InsiderRead(r) ==
    /\ pc[r] = "extract"
    /\ get_filing_processor(Form(r)) = "extract_insider_transactions"
    /\ LET existing_transactions == ExistingTransactions(r, arg[r])
           valid_existing == {t \in existing_transactions : IsValidTransaction(t)}
       IN  /\ snap' = [snap EXCEPT ![r] = existing_transactions]
           /\ pc' = [pc EXCEPT ![r] =
                  IF valid_existing # {} THEN "summary"
                  ELSE IF existing_transactions # {} THEN "ins_delete"
                  ELSE "ins_extract"]
           /\ local' = [local EXCEPT ![r].branch =
                  IF valid_existing # {} THEN "noop" ELSE @]
    /\ UNCHANGED <<probe, queue, store, calls, task, arg, pend, dirty, result, overlap, callsOn>>

\* Lines 28-32: delete the failed transactions that were read, and commit.
InsiderDelete(r) ==
    /\ pc[r] = "ins_delete"
    /\ Commit(r, pend[r], dirty[r], snap[r])
    /\ pc' = [pc EXCEPT ![r] = "ins_extract"]
    /\ UNCHANGED <<probe, queue, calls, task, arg, snap, local, result, overlap, callsOn>>

\* Lines 34-150: read the Form 4 object, build the transaction (or the empty
\* one), add it and commit.
InsiderExtract(r) ==
    /\ pc[r] = "ins_extract"
    /\ \E obj \in {None} \cup {Some(x) : x \in Form4Samples} :
          /\ Commit(r, [pend[r] EXCEPT !.insiders =
                           @ \cup {NewTransaction(NewId(r), arg[r], obj)}],
                    dirty[r], {})
          /\ local' = [local EXCEPT
                 ![r].branch = IF obj = None THEN "raised" ELSE "extracted",
                 ![r].data = IF obj = None THEN NoData ELSE TransactionData(obj[1])]
    /\ pc' = [pc EXCEPT ![r] = "summary"]
    /\ UNCHANGED <<probe, queue, calls, task, arg, snap, result, overlap, callsOn>>

\* _process_filing_content lines 78-84: generate the summary, mark the filing
\* processed and return success.
GenerateSummary(r) ==
    /\ pc[r] = "summary"
    /\ \E c \in SummaryContents(r, arg[r], Form(r)) :
          pend' = [pend EXCEPT ![r].summaries =
              @ \cup generate_filing_summary(r, arg[r], NewId(r), c)]
    /\ dirty' = [dirty EXCEPT ![r].is_processed = Some(TRUE),
                              ![r].processed_at = Some(calls)]
    /\ result' = [result EXCEPT ![r] = Returned("success", "processed")]
    /\ pc' = [pc EXCEPT ![r] = "finish"]
    /\ UNCHANGED <<probe, queue, store, calls, task, arg, snap, local, overlap, callsOn>>

\* _process_filing_content lines 86-89: an exception raised by a statement of
\* the try body reaches the handler, which notes it on the filing object.
InTryBody(r) == pc[r] \in {"gateway", "extract", "ins_delete", "ins_extract", "summary"}

HandleException(r) ==
    /\ InTryBody(r)
    /\ dirty' = [dirty EXCEPT ![r].processing_error = Some("exception")]
    /\ result' = [result EXCEPT ![r] = Returned("error", "exception")]
    /\ pc' = [pc EXCEPT ![r] = "finish"]
    /\ UNCHANGED <<probe, queue, store, calls, task, arg, pend, snap, local, overlap, callsOn>>

\* process_filing_content lines 42-49: commit on success, roll back otherwise;
\* the session and the locals go out of scope.
Finish(r) ==
    /\ pc[r] = "finish"
    /\ IF result[r].status = "success"
       THEN Commit(r, pend[r], dirty[r], {})
       ELSE Rollback(r)
    /\ pc' = [pc EXCEPT ![r] = "idle"]
    /\ snap' = [snap EXCEPT ![r] = {}]
    /\ local' = [local EXCEPT ![r] = NoLocal]
    /\ UNCHANGED <<probe, queue, calls, task, arg, result, overlap, callsOn>>

(* ---------------------------------------------------------- specification *)

FilingRow(form) ==
    [form |-> form, is_processed |-> FALSE, processed_at |-> None,
     processing_error |-> None]

\* No task has run and no task waits.
IdleWorkers ==
    /\ calls = 0
    /\ task = [r \in Runs |-> 0]
    /\ pc = [r \in Runs |-> "idle"]
    /\ arg = [r \in Runs |-> 1]
    /\ pend = [r \in Runs |-> NoPending]
    /\ dirty = [r \in Runs |-> Clean]
    /\ snap = [r \in Runs |-> {}]
    /\ local = [r \in Runs |-> NoLocal]
    /\ result = [r \in Runs |-> NoResult]
    /\ overlap = [f \in FilingIds |-> FALSE]
    /\ callsOn = [f \in FilingIds |-> 0]
    /\ queue = [f \in FilingIds |-> 0]

\* Empty fact tables and idle workers.
NoRuns ==
    /\ metrics = {}
    /\ insiders = {}
    /\ events = {}
    /\ summaries = {}
    /\ IdleWorkers

Init ==
    /\ \E f1 \in Forms, f2 \in SecondForms :
          filings = [f \in FilingIds |-> FilingRow(IF f = 1 THEN f1 ELSE f2)]
    /\ NoRuns
    /\ probe = NoProbe

Next ==
    \E r \in Runs :
        \/ \E f \in FilingIds \cup MissingIds : process_filing_content(r, f)
        \/ ResolveGateway(r)
        \/ ExtractFinancialMetrics(r)
        \/ ExtractCorporateEvents(r)
        \/ NoProcessor(r)
        \/ InsiderRead(r)
        \/ InsiderDelete(r)
        \/ InsiderExtract(r)
        \/ GenerateSummary(r)
        \/ HandleException(r)
        \/ Finish(r)

Spec == Init /\ [][Next]_vars

(* ------------------------------------------------- the pending-filing sweep *)

\* The broker holds at most this many waiting tasks per filing.
MaxQueued == 1

\* process_pending_filings without the is_processed filter of its query.
PendingFilingsAll == FilingIds

\* process_pending_filings lines 99-101:
\* select(EdgarFiling).where(EdgarFiling.is_processed == False).
PendingFilings == {f \in FilingIds : ~filings[f].is_processed}

\* process_pending_filings lines 103-108: one process_filing_content.delay
\* for each filing of the query; the scheduler starts a sweep every minute.
process_pending_filings ==
    /\ \A f \in PendingFilings : queue[f] < MaxQueued
    /\ queue' = [f \in FilingIds |->
                    IF f \in PendingFilings THEN queue[f] + 1 ELSE queue[f]]
    /\ UNCHANGED <<probe, store, calls, task, pc, arg, pend, dirty, snap, local,
                   result, overlap, callsOn>>

\* The ids in use: a task or a row of the sweep's runs takes the least id
\* that no active task and no stored row holds.
UsedIds ==
    {task[q] : q \in {w \in Runs : Active(w)}}
        \cup {x.id : x \in metrics} \cup {x.id : x \in insiders}
        \cup {x.id : x \in events} \cup {x.id : x \in summaries}

FreshId == CHOOSE n \in 1..(Cardinality(UsedIds) + 1) : n \notin UsedIds

\* A worker takes a task the sweep dispatched for filing f off the queue and
\* runs process_filing_content(f).
ExecuteDispatched(r, f) ==
    /\ queue[f] > 0
    /\ queue' = [queue EXCEPT ![f] = @ - 1]
    /\ LoadFiling(r, f, FreshId)
    /\ UNCHANGED <<calls, callsOn>>

\* A filing an earlier run has processed: _process_filing_content lines
\* 79-81 set the flag and the time.
ProcessedRow(form) ==
    [FilingRow(form) EXCEPT !.is_processed = TRUE, !.processed_at = Some(0)]

\* The forms whose processor leaves every write to the commit that ends the
\* run.
SweepForms == FinancialForms \cup EventForms \cup OtherForms

\* The first sweep finds filing 1 pending and filing 2, an S-1 with its
\* generic summary, processed.
InitSweep ==
    /\ \E f1 \in SweepForms :
          filings = [f \in FilingIds |->
                        IF f = 1 THEN FilingRow(f1) ELSE ProcessedRow("S-1")]
    /\ metrics = {}
    /\ insiders = {}
    /\ events = {}
    /\ summaries = {SummaryRow(1, 2, generate_generic_summary("S-1"))}
    /\ IdleWorkers
    /\ probe = NoProbe

NextSweep ==
    \/ process_pending_filings
    \/ \E r \in Runs :
        \/ \E f \in FilingIds : ExecuteDispatched(r, f)
        \/ ResolveGateway(r)
        \/ ExtractFinancialMetrics(r)
        \/ ExtractCorporateEvents(r)
        \/ NoProcessor(r)
        \/ GenerateSummary(r)
        \/ HandleException(r)
        \/ Finish(r)

\* The sweep with its scheduling: the scheduler keeps sweeping, a worker
\* takes every waiting task, a run takes its next step, and the gateway does
\* not fail for ever.
SpecSweep ==
    /\ InitSweep
    /\ [][NextSweep]_vars
    /\ WF_vars(process_pending_filings)
    /\ \A f \in FilingIds : WF_vars(\E r \in Runs : ExecuteDispatched(r, f))
    /\ \A r \in Runs :
          /\ SF_vars(ResolveGateway(r) /\ local'[r].target = "found")
          /\ WF_vars(ExtractFinancialMetrics(r))
          /\ WF_vars(ExtractCorporateEvents(r))
          /\ WF_vars(NoProcessor(r))
          /\ WF_vars(GenerateSummary(r))
          /\ WF_vars(Finish(r))

(* ------------------------------------------------ functions on their own *)

\* The pipeline's variables, which stay as they are while a function of the
\* pipeline is applied on its own to an input drawn from the sets below.
pipeline == <<filings, metrics, insiders, events, summaries, calls, task,
              pc, arg, pend, dirty, snap, local, result, overlap, callsOn, queue>>

Probe(fn, in) == [fn |-> fn, in |-> in, out |-> None]

\* Rows of the four tables, as generate_filing_summary's queries return them.
FloatMetrics == MetricsRow(1, 1, Facts(Some(91), Some(23), Some(2), Some(7)), None)
TextMetrics == MetricsRow(1, 1, Facts(Text(91), Some(23), Some(2), Some(7)), None)
SomeTransaction ==
    InsiderRow(1, 1, "Jane Doe", None, None,
               [NoData EXCEPT !.transaction_type = "SALE", !.shares = 100], None)
SomeEvent == EventRow(1, 1, EventObj(Some("MERGER"), None, None, None, None))
SomeSummary == SummaryRow(1, 1, generate_generic_summary("S-1"))

\* generate_filing_summary: every form type with every combination of rows
\* present.
RoutingInputs ==
    {Probe("generate_filing_summary",
           [form |-> form, fm |-> fm, tx |-> tx, ev |-> ev, existing |-> ex]) :
        form \in Forms, fm \in {{}, {FloatMetrics}, {TextMetrics}},
        tx \in {{}, {SomeTransaction}}, ev \in {{}, {SomeEvent}},
        ex \in {{}, {SomeSummary}}}

\* generate_earnings_summary: revenue, net_income and eps absent, negative,
\* zero or positive.
FactValues == {None, Some(-5), Some(0), Some(91)}
EarningsInputs ==
    {Probe("generate_earnings_summary",
           MetricsRow(1, 1, [Facts(None, None, None, None) EXCEPT
                                !.revenue = rev, !.net_income = ni, !.eps = eps], None)) :
        rev \in FactValues, ni \in FactValues, eps \in FactValues}

\* generate_insider_summary, through the routing for a Form 4 / 4/A filing.
TypeSamples == {"PURCHASE", "SALE", "GRANT", "EXERCISE", "J", "UNKNOWN"}
InsiderInputs ==
    {Probe("generate_insider_summary",
           [form |-> form,
            t |-> InsiderRow(1, 1, "Jane Doe", None, None,
                     [NoData EXCEPT !.transaction_type = ty, !.shares = sh,
                                    !.price_per_share = pr, !.is_executive = ex],
                     None)]) :
        form \in InsiderForms, ty \in TypeSamples, sh \in {0, 2000},
        pr \in {None, Some(50)}, ex \in BOOLEAN}

\* _extract_transaction_data: a Form 4 object whose market_trades has one row
\* with the given shares, price and transaction code and no transaction type,
\* and that has no shares_traded and no to_dataframe.
MarketForm4(sh, pr, code) ==
    Form4(None, None, None, None, NoOwners, None,
          Some(<<Row(Some(sh), pr, None, Some(code), None, None)>>), NoFrame)
ShareSamples == {0, 1000, 2000, 5000, 10000, 10001}
PriceSamples == {None, Some(0), Some(10), Some(25), Some(50)}
Letters == {LowerLetters[i] : i \in 1..Len(LowerLetters)}
               \cup {UpperLetters[i] : i \in 1..Len(UpperLetters)}
TransactionDataInputs ==
    {Probe("extract_transaction_data", MarketForm4(sh, pr, "P")) :
        sh \in ShareSamples, pr \in PriceSamples}
    \cup {Probe("extract_transaction_data", MarketForm4(100, Some(10), code)) :
             code \in Letters}

\* _extract_transaction_data over the three sources together: shares_traded
\* absent, zero, positive or negative; market_trades absent, empty or with one
\* row; to_dataframe missing, raising or returning one row; with the dates the
\* sources carry. persist is the row extract_insider_transactions stores.
MarketRows ==
    {Row(sh, pr, tt, code, None, None) :
        sh \in {None, Some(100)}, pr \in {None, Some(0), Some(10)},
        tt \in {None, Some("award")}, code \in {None, Some("P"), Some("A")}}
FrameRows ==
    {Row(sh, pr, tt, None, None, None) :
        sh \in {None, Some(200)}, pr \in {None, Some(20)},
        tt \in {None, Some("purchase")}}
TransactionFactsInputs ==
    {Probe("transaction_facts",
           [form4 |-> Form4(None, None, None, None, NoOwners, st, mt, df),
            dates |-> Dates(dm, dfr, rp, Some(14))]) :
        st \in {None, Some(0), Some(300), Some(-300)},
        mt \in {None, Some(<< >>)} \cup {Some(<<row>>) : row \in MarketRows},
        df \in {NoFrame, Some(DataFrame(TRUE, << >>))}
                \cup {Some(DataFrame(FALSE, <<row>>)) : row \in FrameRows},
        dm \in {None, Some(11)}, dfr \in {None, Some(12)}, rp \in {None, Some(13)}}

\* extract_corporate_events: event objects with every combination of direct
\* type, alias type and the three flags absent or given.
EventTypeSamples ==
    {None, Some("")} \cup {Some(t) : t \in MaterialOperations \cup MaterialFinancials}
                     \cup {Some("SPINOFF")}
EventInputs ==
    {Probe("corporate_event", EventObj(et, ty, mat, ops, fin)) :
        et \in EventTypeSamples,
        ty \in {None, Some("DIVIDEND"), Some("CEO_CHANGE"), Some("SPINOFF")},
        mat \in {None, Some(TRUE), Some(FALSE)},
        ops \in {None, Some(TRUE), Some(FALSE)},
        fin \in {None, Some(TRUE), Some(FALSE)}}

\* _determine_insider_relationship: the title absent, empty or one of Titles.
RelationshipInputs ==
    {Probe("insider_relationship", position) :
        position \in {None, Some("")} \cup {Some(t) : t \in Titles}}

\* extract_insider_transactions, lines 38-107: Form 4 objects with every
\* combination of the four accessors giving or not giving a name and a title.
\* shares_traded makes the transaction a valid one, so that it is persisted.
OwnersSamples ==
    {NoOwners, Some(OwnersList(<< >>))}
        \cup {Some(OwnersObject(n, t)) : n \in {None, Some("Owner Obj")},
                                         t \in {None, Some("Executive Chairman")}}
        \cup {Some(OwnersList(<<Owner(n, t)>>)) : n \in {None, Some("Owner One")},
                                                 t \in {None, Some("General Counsel")}}
FrameSamples ==
    {NoFrame, Some(DataFrame(TRUE, << >>)), Some(DataFrame(FALSE, << >>))}
        \cup {Some(DataFrame(FALSE, <<Row(None, None, None, None, n, t)>>)) :
                 n \in {None, Some("Frame Name")}, t \in {None, Some("VP Sales")}}
IdentityInputs ==
    {Probe("insider_identity",
           Form4(name, pos, roName, roRel, owners, Some(300), None, df)) :
        name \in {None, Some(""), Some("Jane Doe")},
        pos \in {None, Some(""), Some("Director")},
        roName \in {None, Some("John Roe")},
        roRel \in {None, Some("CFO and Director")},
        owners \in OwnersSamples, df \in FrameSamples}

\* extract_metric: tables of two rows, each with one of the row labels, an
\* older-period cell and a most-recent-period cell.
OlderCells == {None, Some(17), Cell("nan")}
LatestCells == {None, Some(91), Text(23), Cell("nan"), Cell("inf"), Cell("empty"),
                Cell("words"), Cell("dotted")}
StatementRows ==
    {StatementRow(label, older, latest) :
        label \in RowLabels, older \in OlderCells, latest \in LatestCells}
MetricInputs ==
    {Probe("extract_metric", <<row1, row2>>) :
        row1 \in StatementRows, row2 \in StatementRows}
\* _extract_metrics_from_obj: a financials() object whose revenue attribute
\* holds each kind of value.
ObjInputs ==
    {Probe("extract_metrics_from_obj",
           [revenue |-> v, net_income |-> Some(23), eps |-> None, rest |-> Some(7)]) :
        v \in LatestCells}

ApplyFilingSummary ==
    /\ probe.fn = "generate_filing_summary" /\ probe.out = None
    /\ \E c \in RouteSummary(probe.in.form, probe.in.fm, probe.in.tx, probe.in.ev) :
          probe' = [probe EXCEPT
                       !.out = Some(filing_summary_rows(probe.in.existing, 2, 1, c))]
    /\ UNCHANGED pipeline

ApplyEarningsSummary ==
    /\ probe.fn = "generate_earnings_summary" /\ probe.out = None
    /\ probe' = [probe EXCEPT !.out = Some(generate_earnings_summary(probe.in))]
    /\ UNCHANGED pipeline

ApplyInsiderSummary ==
    /\ probe.fn = "generate_insider_summary" /\ probe.out = None
    /\ probe' = [probe EXCEPT
                     !.out = Some(RouteSummary(probe.in.form, {}, {probe.in.t}, {}))]
    /\ UNCHANGED pipeline

ApplyTransactionData ==
    /\ probe.fn = "extract_transaction_data" /\ probe.out = None
    /\ probe' = [probe EXCEPT !.out = Some(TransactionData(probe.in))]
    /\ UNCHANGED pipeline

ApplyTransactionFacts ==
    /\ probe.fn = "transaction_facts" /\ probe.out = None
    /\ probe' = [probe EXCEPT !.out =
           Some([data |-> TransactionData(probe.in.form4),
                 transaction_date |-> transaction_date(probe.in.form4, probe.in.dates),
                 persist |-> NewTransaction(2, 1, Some(probe.in.form4))])]
    /\ UNCHANGED pipeline

ApplyCorporateEvent ==
    /\ probe.fn = "corporate_event" /\ probe.out = None
    /\ probe' = [probe EXCEPT !.out = Some(EventRow(2, 1, probe.in))]
    /\ UNCHANGED pipeline

ApplyInsiderRelationship ==
    /\ probe.fn = "insider_relationship" /\ probe.out = None
    /\ LET insider_relationship == determine_insider_relationship(probe.in)
           form4 == Form4(None, None, None, None, NoOwners, None, None, NoFrame)
       IN  probe' = [probe EXCEPT !.out =
               Some([insider_relationship |-> insider_relationship,
                     is_executive |->
                         extract_transaction_data(form4, insider_relationship).is_executive])]
    /\ UNCHANGED pipeline

ApplyInsiderIdentity ==
    /\ probe.fn = "insider_identity" /\ probe.out = None
    /\ probe' = [probe EXCEPT !.out =
           Some([insider_name |-> ResolveInsiderName(probe.in),
                 insider_title |-> ResolveInsiderTitle(probe.in),
                 persist |-> NewTransaction(2, 1, Some(probe.in))])]
    /\ UNCHANGED pipeline

ApplyExtractMetric ==
    /\ probe.fn = "extract_metric" /\ probe.out = None
    /\ probe' = [probe EXCEPT !.out = Some(extract_metric(probe.in, NetIncomeLabels))]
    /\ UNCHANGED pipeline

ApplyMetricsFromObj ==
    /\ probe.fn = "extract_metrics_from_obj" /\ probe.out = None
    /\ probe' = [probe EXCEPT !.out =
           Some(MetricsRow(2, 1, extract_metrics_from_obj(probe.in), None))]
    /\ UNCHANGED pipeline

InitFunctions ==
    /\ filings = [f \in FilingIds |-> FilingRow("S-1")]
    /\ NoRuns
    /\ \/ probe \in RoutingInputs
       \/ probe \in EarningsInputs
       \/ probe \in InsiderInputs
       \/ probe \in TransactionDataInputs
       \/ probe \in TransactionFactsInputs
       \/ probe \in EventInputs
       \/ probe \in RelationshipInputs
       \/ probe \in IdentityInputs
       \/ probe \in MetricInputs
       \/ probe \in ObjInputs

NextFunctions ==
    \/ ApplyFilingSummary
    \/ ApplyEarningsSummary
    \/ ApplyInsiderSummary
    \/ ApplyTransactionData
    \/ ApplyTransactionFacts
    \/ ApplyCorporateEvent
    \/ ApplyInsiderRelationship
    \/ ApplyInsiderIdentity
    \/ ApplyExtractMetric
    \/ ApplyMetricsFromObj

SpecFunctions == InitFunctions /\ [][NextFunctions]_vars

(* ----------------------------------------------------------------- claims *)

\* The rows of a table with a given filing_id, and the validity of a stored
\* transaction, as the claims read them.
RowsOf(rows, f) == {x \in rows : x.filing_id = f}
ValidShape(t) == t.shares > 0 /\ t.transaction_type # "UNKNOWN"
PlaceholderShape(t) ==
    /\ t.shares = 0
    /\ t.transaction_type = "UNKNOWN"
    /\ t.extraction_error # None
    /\ t.extraction_error[1] # ""
AllFactsNull(m) ==
    /\ m.revenue = None /\ m.net_income = None /\ m.eps = None
    /\ m.total_assets = None /\ m.total_liabilities = None
    /\ m.cash_and_equivalents = None /\ m.operating_cash_flow = None
\* No invocation for filing f is executing.
Quiet(f) == \A r \in Runs : Active(r) => arg[r] # f
\* Worker r takes the step that starts an invocation.
Starts(r) == pc[r] = "idle" /\ task'[r] = calls + 1
GatewayFailed(r) == local[r].target \in {"no_company", "no_filing"}

\* C1. Idempotence: after process has been called twice for a filing, one call
\* after the other, the filing has at most one FinancialMetrics, at most one
\* CorporateEvent and at most one FilingSummary, and when it has a valid
\* InsiderTransaction that is its only InsiderTransaction.
C1_Idempotence ==
    \A f \in FilingIds :
        (callsOn[f] >= 2 /\ ~overlap[f] /\ Quiet(f)) =>
            /\ Cardinality(RowsOf(metrics, f)) <= 1
            /\ Cardinality(RowsOf(events, f)) <= 1
            /\ Cardinality(RowsOf(summaries, f)) <= 1
            /\ (\E t \in RowsOf(insiders, f) : ValidShape(t))
                   => Cardinality(RowsOf(insiders, f)) = 1

\* Two calls in a row for filing 1: the first stored a valid transaction and
\* failed afterwards, the second ran the pipeline again and committed.
C1_SecondCallRan ==
    /\ callsOn[1] = 2 /\ ~overlap[1] /\ Quiet(1)
    /\ filings[1].is_processed
    /\ \E t \in RowsOf(insiders, 1), s \in RowsOf(summaries, 1) :
          ValidShape(t) /\ t.id = 1 /\ s.id = 2

\* C2. Atomic unit of work: the committed store never holds a fact record of a
\* filing without the FilingSummary and is_processed = true of the run that
\* wrote it.
C2_AtomicUnitOfWork ==
    \A f \in FilingIds :
        (RowsOf(metrics, f) # {} \/ RowsOf(insiders, f) # {} \/ RowsOf(events, f) # {})
            => (filings[f].is_processed /\ RowsOf(summaries, f) # {})

\* C3. Failure recording: once the only run for a filing has returned error
\* because an exception escaped, the stored filing has is_processed = false
\* and a processing_error.
C3_FailureRecorded ==
    \A r \in Runs :
        (pc[r] = "idle" /\ result[r] = Returned("error", "exception")
         /\ callsOn[arg[r]] = 1)
            => (~filings[arg[r]].is_processed
                /\ filings[arg[r]].processing_error # None)

\* C4. Replace-on-failure: when the runs so far left only invalid
\* InsiderTransactions for an ownership-form filing, the next process call for
\* it goes on to fetch and re-extract (it does not return at once).
C4_ReplaceOnFailure ==
    [][\A r \in Runs, f \in FilingIds :
          (Starts(r) /\ arg'[r] = f /\ Quiet(f)
           /\ filings[f].form \in InsiderForms
           /\ RowsOf(insiders, f) # {}
           /\ \A t \in RowsOf(insiders, f) : ~ValidShape(t))
              => pc'[r] = "gateway"]_vars

\* C5. Accepted duplicate race: as long as no two executions for a filing have
\* overlapped, the filing has at most one FinancialMetrics, one FilingSummary
\* and one valid InsiderTransaction (duplicates need interleaved executions).
C5_NoDuplicatesWithoutOverlap ==
    \A f \in FilingIds :
        ~overlap[f] =>
            /\ Cardinality(RowsOf(metrics, f)) <= 1
            /\ Cardinality(RowsOf(summaries, f)) <= 1
            /\ Cardinality({t \in RowsOf(insiders, f) : ValidShape(t)}) <= 1

\* Two interleaved executions left two FinancialMetrics and two FilingSummary
\* rows for filing 1.
C5_DuplicatesReached ==
    /\ overlap[1]
    /\ Cardinality(RowsOf(metrics, 1)) = 2
    /\ Cardinality(RowsOf(summaries, 1)) = 2

\* C6. A committed valid InsiderTransaction is never deleted or changed: every
\* row that leaves the table was read by an extractor whose snapshot held no
\* valid row.
C6_ValidNeverDeleted ==
    [][/\ \A t \in insiders : ValidShape(t) => t \in insiders'
       /\ \A t \in insiders \ insiders' :
             \E r \in Runs : /\ pc[r] = "ins_delete"
                             /\ t \in snap[r]
                             /\ \A u \in snap[r] : ~ValidShape(u)]_vars

\* An extractor has run for a filing whose valid transaction was committed,
\* and has left it in place.
C6_ValidSeenByExtractor ==
    \E r \in Runs :
        /\ pc[r] = "summary"
        /\ local[r].branch = "noop"
        /\ \E t \in snap[r] : ValidShape(t) /\ t \in insiders

\* C7. Already-processed short circuit: a call for a filing whose is_processed
\* is true returns success at once, without reaching the gateway, an extractor
\* or the summary generator, and changes no stored record or filing field.
C7_ShortCircuit ==
    [][\A r \in Runs :
          (Starts(r) /\ arg'[r] \in FilingIds /\ filings[arg'[r]].is_processed)
              => /\ result'[r] = Returned("success", "Already processed")
                 /\ pc'[r] = "idle"
                 /\ store' = store
                 /\ pend'[r] = NoPending
                 /\ dirty'[r] = Clean]_vars

\* A call has returned "Already processed".
C7_ShortCircuitTaken ==
    \E r \in Runs :
        /\ pc[r] = "idle"
        /\ result[r] = Returned("success", "Already processed")
        /\ filings[arg[r]].is_processed

\* C8. When no filing matches the id, or the gateway resolves no company or no
\* filing, the call returns error, no extractor and no summary generator runs,
\* and the record store is left as it was.
C8_NotFoundLeavesStore ==
    [][\A r \in Runs :
          /\ (Starts(r) /\ arg'[r] \notin FilingIds)
                => /\ result'[r] = Returned("error", "Filing not found")
                   /\ pc'[r] = "idle"
                   /\ store' = store
                   /\ pend'[r] = NoPending
          /\ (pc[r] = "gateway" /\ local'[r].target \in {"no_company", "no_filing"})
                => /\ pc'[r] = "finish"
                   /\ result'[r].status = "error"
                   /\ store' = store
                   /\ pend'[r] = NoPending
                   /\ dirty'[r] = Clean
          /\ (pc[r] = "finish" /\ pc'[r] = "idle" /\ GatewayFailed(r))
                => /\ result'[r].status = "error"
                   /\ store' = store]_vars

\* A run whose gateway found no filing is about to return.
C8_GatewayFailureReached ==
    \E r \in Runs :
        /\ pc[r] = "finish"
        /\ local[r].target = "no_filing"
        /\ result[r] = Returned("error", "Filing not found in EdgarTools")

GenericShape(s) ==
    s.importance_score = 3 /\ s.event_category = "REGULATORY" /\ s.sentiment = "NEUTRAL"
\* The run of worker r has reached its end without an exception having
\* reached the handler of _process_filing_content.
Completed(r) == pc[r] = "finish" /\ result[r].message # "exception"

\* C11. Summary-only path: a filing whose form type has no processor never has
\* a FinancialMetrics, InsiderTransaction or CorporateEvent row, committed or
\* pending; a run for it whose gateway handle resolved returns success and
\* marks the filing processed, and (executions not overlapping) adds exactly
\* one FilingSummary, which has importance 0.3, category REGULATORY and
\* sentiment NEUTRAL, and is the filing's only summary once committed.
C11_SummaryOnlyPath ==
    \A f \in FilingIds :
        filings[f].form \notin (FinancialForms \cup InsiderForms \cup EventForms) =>
            /\ RowsOf(metrics, f) = {} /\ RowsOf(insiders, f) = {}
            /\ RowsOf(events, f) = {}
            /\ \A r \in Runs :
                  (Active(r) /\ arg[r] = f) =>
                      /\ pend[r].metrics = {} /\ pend[r].insiders = {}
                      /\ pend[r].events = {}
                      /\ pc[r] \notin {"ins_delete", "ins_extract"}
                      /\ (Completed(r) /\ local[r].target = "found") =>
                            /\ result[r].status = "success"
                            /\ dirty[r].is_processed = Some(TRUE)
                            /\ ~overlap[f] =>
                                  \E s \in pend[r].summaries :
                                      pend[r].summaries = {s} /\ GenericShape(s)
            /\ (filings[f].is_processed /\ ~overlap[f]) =>
                  \E s \in summaries :
                      RowsOf(summaries, f) = {s} /\ GenericShape(s)

\* A filing of a form type without processor has been processed and has its
\* generic summary.
C11_UnknownFormProcessed ==
    /\ filings[1].form \in OtherForms
    /\ filings[1].is_processed
    /\ \E s \in summaries : s.filing_id = 1 /\ GenericShape(s)
    /\ RowsOf(metrics, 1) = {} /\ RowsOf(insiders, 1) = {} /\ RowsOf(events, 1) = {}

\* C15. Best-effort event extraction: when reading or building the event of an
\* 8-K / 6-K filing failed, the run has added no CorporateEvent, it still
\* returns success with the filing marked processed, and (executions not
\* overlapping) the filing has no event and the run's summary is the generic
\* REGULATORY one.
C15_BestEffortEvents ==
    \A r \in Runs :
        (Completed(r) /\ filings[arg[r]].form \in EventForms
         /\ local[r].branch = "failed") =>
            /\ pend[r].events = {}
            /\ result[r].status = "success"
            /\ dirty[r].is_processed = Some(TRUE)
            /\ ~overlap[arg[r]] =>
                  /\ RowsOf(events, arg[r]) = {}
                  /\ \E s \in pend[r].summaries :
                        pend[r].summaries = {s} /\ GenericShape(s)

\* A run for an 8-K / 6-K filing whose event extraction failed is about to
\* commit its generic summary.
C15_EventExtractionFailed ==
    \E r \in Runs :
        /\ Completed(r) /\ filings[arg[r]].form \in EventForms
        /\ local[r].branch = "failed"
        /\ ~overlap[arg[r]]
        /\ \E s \in pend[r].summaries : GenericShape(s)

\* C16. Step order inside one run: the extractor starts only after the gateway
\* resolved the handle, the summary generator starts only after the extractor
\* (if any) has returned, and the record store changes only in the last step
\* of a run, its commit.
C16_StepOrder ==
    [][/\ \A r \in Runs :
            /\ (pc'[r] = "extract" /\ pc[r] # "extract")
                  => (pc[r] = "gateway" /\ local'[r].target = "found")
            /\ (pc'[r] = "summary" /\ pc[r] # "summary")
                  => pc[r] \in {"extract", "ins_extract"}
       /\ store' # store => \E r \in Runs : pc[r] = "finish" /\ pc'[r] = "idle"]_vars

\* C19. With non-overlapping runs, every filing with is_processed = true has
\* exactly one FilingSummary.
C19_ProcessedHasSummary ==
    \A f \in FilingIds :
        (filings[f].is_processed /\ ~overlap[f])
            => Cardinality(RowsOf(summaries, f)) = 1

Applied(fn) == probe.fn = fn /\ probe.out # None

\* C12. Summary routing, first matching rule wins: no summary is created when
\* one exists; a summary that is created has category EARNINGS iff the form is
\* 10-K/10-Q and a FinancialMetrics row exists, otherwise INSIDER_TRADE iff the
\* form is 4 or 4/A and an InsiderTransaction exists, otherwise CORPORATE_EVENT
\* iff the form is 8-K/6-K and a CorporateEvent exists, otherwise REGULATORY,
\* whatever rows of the other kinds exist; and exactly one summary is created
\* when none exists and the facts of the routed row are numbers.
C12_SummaryRouting ==
    Applied("generate_filing_summary") =>
        LET i == probe.in
            rows == probe.out[1]
            category ==
                IF i.form \in {"10-K", "10-Q"} /\ i.fm # {} THEN "EARNINGS"
                ELSE IF i.form \in {"4", "4/A"} /\ i.tx # {} THEN "INSIDER_TRADE"
                ELSE IF i.form \in {"8-K", "6-K"} /\ i.ev # {} THEN "CORPORATE_EVENT"
                ELSE "REGULATORY"
        IN  /\ i.existing # {} => rows = {}
            /\ \A s \in rows : s.event_category = category
            /\ (i.existing = {} /\ (category = "EARNINGS" => i.fm = {FloatMetrics}))
                  => Cardinality(rows) = 1

\* A periodic report that has no metrics but an insider transaction and an
\* event got the generic summary.
C12_ForeignFactsIgnored ==
    /\ Applied("generate_filing_summary")
    /\ probe.in.form = "10-K" /\ probe.in.fm = {}
    /\ probe.in.tx # {} /\ probe.in.ev # {} /\ probe.in.existing = {}
    /\ \E s \in probe.out[1] : s.event_category = "REGULATORY"

\* C13. Earnings template: with each of revenue, net_income and eps absent or
\* present with any number, the summary is POSITIVE with importance 0.8 iff
\* all three are present, NEUTRAL with 0.6 iff some but not all are present,
\* NEUTRAL with 0.4 iff none is; every absent fact is rendered "N/A" and
\* generation does not raise.
C13_EarningsTemplate ==
    Applied("generate_earnings_summary") =>
        LET m == probe.in
            c == probe.out[1]
            present == {x \in {"revenue", "net_income", "eps"} : m[x] # None}
        IN  /\ ~earnings_summary_raises(m)
            /\ Cardinality(present) = 3
                  => (c.sentiment = "POSITIVE" /\ c.importance_score = 8)
            /\ Cardinality(present) \in {1, 2}
                  => (c.sentiment = "NEUTRAL" /\ c.importance_score = 6)
            /\ Cardinality(present) = 0
                  => (c.sentiment = "NEUTRAL" /\ c.importance_score = 4)
            /\ \A x \in {"revenue", "net_income", "eps"} :
                  m[x] = None => <<x, "N/A">> \in c.key_metrics

\* C14. Insider template: the summary built from a Form 4 / 4/A filing's
\* transaction has category INSIDER_TRADE, sentiment POSITIVE iff the
\* transaction type is PURCHASE and NEGATIVE for every other type, UNKNOWN
\* included, and importance 0.7 iff is_executive, else 0.5.
C14_InsiderTemplate ==
    Applied("generate_insider_summary") =>
        /\ probe.out[1] # {}
        /\ \A c \in probe.out[1] :
              /\ c # None
              /\ c[1].event_category = "INSIDER_TRADE"
              /\ c[1].sentiment = "POSITIVE" <=> probe.in.t.transaction_type = "PURCHASE"
              /\ c[1].sentiment = "NEGATIVE" <=> probe.in.t.transaction_type # "PURCHASE"
              /\ c[1].importance_score = 7 <=> probe.in.t.is_executive
              /\ c[1].importance_score = 5 <=> ~probe.in.t.is_executive

\* The summary of a placeholder transaction (UNKNOWN) of a non-executive.
C14_PlaceholderSummarised ==
    /\ Applied("generate_insider_summary")
    /\ probe.in.t.transaction_type = "UNKNOWN" /\ ~probe.in.t.is_executive
    /\ \E c \in probe.out[1] :
          c # None /\ c[1].sentiment = "NEGATIVE" /\ c[1].importance_score = 5

\* C17. Derived value and significance flag: for non-negative shares and
\* prices, when both are present total_value = shares * price_per_share, and
\* is_large_transaction is true iff total_value > 100000 or shares > 10000.
\* (The code keeps an absent share count as 0, so shares are present when
\* they are not 0; a price is present when it is not None.)
C17_DerivedValue ==
    (/\ Applied("extract_transaction_data")
     /\ probe.in.market_trades[1][1].Shares # Some(0)
     /\ probe.in.market_trades[1][1].Price # None) =>
        LET shares == probe.in.market_trades[1][1].Shares[1]
            price == probe.in.market_trades[1][1].Price[1]
            d == probe.out[1]
        IN  /\ d.shares = shares /\ d.price_per_share = Some(price)
            /\ d.total_value = Some(shares * price)
            /\ d.is_large_transaction <=> (shares * price > 100000 \/ shares > 10000)

\* C18. Transaction-code mapping: a type taken from the transaction code is
\* the table's label for P, S, A, M, D, G and V and the code's uppercase form
\* for every other single letter, and never UNKNOWN.
C18_CodeMapping ==
    Applied("extract_transaction_data") =>
        LET code == probe.in.market_trades[1][1].Code[1]
            type == probe.out[1].transaction_type
            upper == IF \E i \in 1..26 : LowerLetters[i] = code
                     THEN UpperLetters[CHOOSE i \in 1..26 : LowerLetters[i] = code]
                     ELSE code
        IN  /\ code = "P" => type = "PURCHASE"
            /\ code = "S" => type = "SALE"
            /\ code = "A" => type = "GRANT"
            /\ code = "M" => type = "EXERCISE"
            /\ code = "D" => type = "DISPOSITION"
            /\ code = "G" => type = "GIFT"
            /\ code = "V" => type = "VOLUNTARY"
            /\ code \notin {"P", "S", "A", "M", "D", "G", "V"} => type = upper
            /\ type # "UNKNOWN"

\* A lower-case code outside the table has been mapped to its upper case.
C18_OtherCodeMapped ==
    /\ Applied("extract_transaction_data")
    /\ probe.in.market_trades[1][1].Code = Some("j")
    /\ probe.out[1].transaction_type = "J"

\* The first row of a tabular source of the drawn Form 4 object, None when the
\* source is absent, empty or cannot be read.
MarketRowOf(form4) ==
    IF form4.market_trades # None /\ Len(form4.market_trades[1]) > 0
    THEN Some(form4.market_trades[1][1]) ELSE None
FrameRowOf(form4) ==
    IF form4.to_dataframe # None /\ ~form4.to_dataframe[1].raises
       /\ Len(form4.to_dataframe[1].rows) > 0
    THEN Some(form4.to_dataframe[1].rows[1]) ELSE None
\* The first value of a priority list that is present.
FirstPresent(candidates) ==
    IF \A k \in 1..Len(candidates) : candidates[k] = None THEN None
    ELSE candidates[CHOOSE k \in 1..Len(candidates) :
                       candidates[k] # None /\ \A j \in 1..(k - 1) : candidates[j] = None]
\* The share count / type / price a row supplies (0 shares and an empty
\* label count as nothing supplied).
SharesOfRow(row) ==
    IF row = None \/ row[1].Shares = None \/ row[1].Shares = Some(0) THEN None
    ELSE Some(Abs(row[1].Shares[1]))
LabelOf(text) ==
    CASE text = "award" -> "AWARD"
      [] text = "purchase" -> "PURCHASE"
      [] text = "P" -> "PURCHASE"
      [] text = "A" -> "GRANT"
TypeOfRow(row) ==
    IF row = None THEN None
    ELSE IF row[1].TransactionType # None THEN Some(LabelOf(row[1].TransactionType[1]))
    ELSE IF row[1].Code # None THEN Some(LabelOf(row[1].Code[1]))
    ELSE None
PriceOfRow(row) == IF row = None THEN None ELSE row[1].Price

\* C22. Ordered, per-field, first-success resolution: shares, transaction_type,
\* price_per_share and transaction_date each come from the first of net shares
\* traded, the market-trades first row and the tabular export's first row that
\* supplies a value (net shares traded being other than 0 and the market-trades
\* price other than 0.0).
C22_FirstSuccessPerField ==
    (/\ Applied("transaction_facts")
     /\ probe.in.form4.shares_traded # Some(0)
     /\ PriceOfRow(MarketRowOf(probe.in.form4)) # Some(0)) =>
        LET form4 == probe.in.form4
            st == form4.shares_traded
            mrow == MarketRowOf(form4)
            frow == FrameRowOf(form4)
            d == probe.out[1].data
            shares == FirstPresent(<<IF st = None THEN None ELSE Some(Abs(st[1])),
                                     SharesOfRow(mrow), SharesOfRow(frow)>>)
            type == FirstPresent(<<IF st = None THEN None
                                   ELSE Some(IF st[1] > 0 THEN "PURCHASE" ELSE "SALE"),
                                   TypeOfRow(mrow), TypeOfRow(frow)>>)
            price == FirstPresent(<<PriceOfRow(mrow), PriceOfRow(frow)>>)
            date == FirstPresent(<<IF mrow = None THEN None ELSE probe.in.dates.market,
                                   IF frow = None THEN None ELSE probe.in.dates.frame>>)
        IN  /\ d.shares = IF shares = None THEN 0 ELSE shares[1]
            /\ d.transaction_type = IF type = None THEN "UNKNOWN" ELSE type[1]
            /\ d.price_per_share = price
            /\ date # None => probe.out[1].transaction_date = date

\* C23. The type is inferred from net shares traded by its sign only: PURCHASE
\* when positive, SALE when negative; when it is 0 and the market-trades first
\* row has code P, no type label and a non-zero share count, the transaction is
\* stored as a PURCHASE.
C23_TypeFromSign ==
    Applied("transaction_facts") =>
        LET form4 == probe.in.form4
            st == form4.shares_traded
            mrow == MarketRowOf(form4)
            d == probe.out[1].data
        IN  /\ (st # None /\ st[1] > 0) => d.transaction_type = "PURCHASE"
            /\ (st # None /\ st[1] < 0) => d.transaction_type = "SALE"
            /\ (/\ st = Some(0) /\ mrow # None
                /\ mrow[1].Code = Some("P") /\ mrow[1].TransactionType = None
                /\ SharesOfRow(mrow) # None)
                  => /\ d.transaction_type = "PURCHASE"
                     /\ probe.out[1].persist.transaction_type = "PURCHASE"

\* C24. A transaction of type GRANT or AWARD for which no source supplies a
\* price is persisted with price_per_share 0.0.
C24_GrantPriceDefault ==
    (/\ Applied("transaction_facts")
     /\ probe.out[1].persist.transaction_type \in {"GRANT", "AWARD"}
     /\ PriceOfRow(MarketRowOf(probe.in.form4)) = None
     /\ PriceOfRow(FrameRowOf(probe.in.form4)) = None)
        => probe.out[1].persist.price_per_share = Some(0)

\* C25. Corporate event defaults: event_type is the direct field, else the
\* alias field, else CORPORATE_EVENT (an empty string counting as not given);
\* is_material is true when unspecified and the given value otherwise;
\* affects_operations, when not given, is true iff event_type is one of
\* CEO_CHANGE, MERGER, LAYOFFS, RESTRUCTURING, and affects_financials, when not
\* given, iff it is one of EARNINGS, DIVIDEND, STOCK_SPLIT, FINANCING; a given
\* value is kept.
C25_EventDefaults ==
    Applied("corporate_event") =>
        LET o == probe.in
            e == probe.out[1]
            given(x) == x # None /\ x # Some("")
        IN  /\ e.event_type = IF given(o.event_type) THEN o.event_type[1]
                               ELSE IF given(o.type) THEN o.type[1]
                               ELSE "CORPORATE_EVENT"
            /\ e.is_material = IF o.is_material = None THEN TRUE ELSE o.is_material[1]
            /\ e.affects_operations =
                   IF o.affects_operations # None THEN o.affects_operations[1]
                   ELSE e.event_type \in {"CEO_CHANGE", "MERGER", "LAYOFFS", "RESTRUCTURING"}
            /\ e.affects_financials =
                   IF o.affects_financials # None THEN o.affects_financials[1]
                   ELSE e.event_type \in {"EARNINGS", "DIVIDEND", "STOCK_SPLIT", "FINANCING"}

\* A MERGER explicitly marked not material and not affecting operations has
\* kept both values, and its unspecified affects_financials is false.
C25_ExplicitFalseKept ==
    /\ Applied("corporate_event")
    /\ probe.in.event_type = Some("MERGER")
    /\ probe.in.is_material = Some(FALSE)
    /\ probe.in.affects_operations = Some(FALSE)
    /\ probe.in.affects_financials = None
    /\ ~probe.out[1].is_material
    /\ ~probe.out[1].affects_operations
    /\ ~probe.out[1].affects_financials

\* The first role of the list one of whose keywords occurs in the title, the
\* upper-cased title when none occurs, nothing for an absent or empty title.
RoleNames == <<"CEO", "CFO", "DIRECTOR", "PRESIDENT", "CHAIRMAN">>
FirstRole(position, keywords) ==
    IF position = None \/ position = Some("") THEN None
    ELSE IF \A k \in 1..5 : keywords[k] \cap KeywordsIn(position[1]) = {}
         THEN Some(UpperTitle(position[1]))
         ELSE Some(RoleNames[CHOOSE k \in 1..5 :
                      /\ keywords[k] \cap KeywordsIn(position[1]) # {}
                      /\ \A j \in 1..(k - 1) :
                            keywords[j] \cap KeywordsIn(position[1]) = {}])

\* C26 as stated. The relationship is the first of CEO, CFO, DIRECTOR,
\* PRESIDENT, CHAIRMAN whose name occurs, case-insensitively, in the title, and
\* the upper-cased title when none occurs; an absent title gives no
\* relationship; is_executive is true iff the relationship is one of the five.
C26_RoleNameInTitle ==
    Applied("insider_relationship") =>
        /\ probe.out[1].insider_relationship =
               FirstRole(probe.in, <<{"ceo"}, {"cfo"}, {"director"}, {"president"},
                                     {"chairman"}>>)
        /\ probe.out[1].is_executive <=>
               \E k \in 1..5 : probe.out[1].insider_relationship = Some(RoleNames[k])

\* C26, amended. The relationship is the first of CEO ("ceo" or "chief
\* executive"), CFO ("cfo" or "chief financial"), DIRECTOR, PRESIDENT, CHAIRMAN,
\* checked in that order, one of whose keywords occurs case-insensitively in
\* the title, and the upper-cased title when none occurs; an absent or empty
\* title gives no relationship; is_executive is true iff the relationship is
\* one of the five.
C26_Relationship ==
    Applied("insider_relationship") =>
        /\ probe.out[1].insider_relationship =
               FirstRole(probe.in, <<{"ceo", "chief executive"}, {"cfo", "chief financial"},
                                     {"director"}, {"president"}, {"chairman"}>>)
        /\ probe.out[1].is_executive <=>
               \E k \in 1..5 : probe.out[1].insider_relationship = Some(RoleNames[k])

\* A title that names two roles, the later-listed one first, got the role that
\* is checked first.
C26_FirstRoleWins ==
    /\ Applied("insider_relationship")
    /\ probe.in = Some("Chairman and President")
    /\ probe.out[1].insider_relationship = Some("PRESIDENT")
    /\ probe.out[1].is_executive

\* What each accessor gives for the name / the title, in the fixed order:
\* direct field, legacy reporting-owner field, owners collection, tabular
\* fallback. An empty string counts as nothing.
NonEmpty(x) == IF x = Some("") THEN None ELSE x
NameAccessors(form4) ==
    <<NonEmpty(form4.insider_name),
      NonEmpty(form4.reporting_owner_name),
      IF TruthyOwners(form4.reporting_owners) THEN NonEmpty(OwnersName(form4)) ELSE None,
      IF FrameRowOf(form4) = None THEN None ELSE NonEmpty(FrameRowOf(form4)[1].Insider)>>
TitleAccessors(form4) ==
    <<NonEmpty(form4.position),
      NonEmpty(form4.reporting_owner_relationship),
      IF TruthyOwners(form4.reporting_owners) THEN NonEmpty(OwnersTitle(form4)) ELSE None,
      IF FrameRowOf(form4) = None THEN None ELSE NonEmpty(FrameRowOf(form4)[1].Position)>>

\* C27. Identity resolution: name and title are each the first non-empty
\* result of the accessors in their order, whatever the other field resolved
\* to; an unresolved name is stored as "Unknown", an unresolved title stays
\* absent.
C27_IdentityResolution ==
    Applied("insider_identity") =>
        LET name == FirstPresent(NameAccessors(probe.in))
            title == FirstPresent(TitleAccessors(probe.in))
            t == probe.out[1].persist
        IN  /\ probe.out[1].insider_name = IF name = None THEN Some("Unknown") ELSE name
            /\ NonEmpty(probe.out[1].insider_title) = title
            /\ ValidShape(t)
            /\ t.insider_name = IF name = None THEN "Unknown" ELSE name[1]
            /\ t.insider_title = title

\* The name came from the tabular fallback while the title came from the
\* direct field, the fallback's own title being left aside.
C27_FieldsResolvedApart ==
    /\ Applied("insider_identity")
    /\ FirstPresent(<<NameAccessors(probe.in)[1], NameAccessors(probe.in)[2],
                      NameAccessors(probe.in)[3]>>) = None
    /\ probe.in.position = Some("Director")
    /\ FrameRowOf(probe.in) # None
    /\ FrameRowOf(probe.in)[1].Position = Some("VP Sales")
    /\ probe.out[1].persist.insider_name = "Frame Name"
    /\ probe.out[1].persist.insider_title = Some("Director")

\* A value that is a finite number, or the text of one.
Numeric(value) == value # None /\ (IsFloat(value) \/ (Len(value) = 2 /\ value[2] = "str"))
\* The most recent of the period columns that hold a numeric observation.
LatestNumericColumn(df) ==
    LET cols == {c \in {1, 2} : \E i \in 1..Len(df) : Numeric(df[i].cells[c])}
    IN  IF cols = {} THEN 0 ELSE CHOOSE c \in cols : \A o \in cols : o <= c
\* The value a synonym yields: that of the first row whose label contains it
\* and that has a numeric value in column c, None when there is no such row.
YieldOf(df, label, c) ==
    LET hits == {i \in 1..Len(df) :
                    LabelContains(df[i].label, label) /\ Numeric(df[i].cells[c])}
    IN  IF c = 0 \/ hits = {} THEN None
        ELSE Some(df[CHOOSE i \in hits : \A j \in hits : i <= j].cells[c][1])

\* C28. Metric selection: the synonyms are tried in their order, and the value
\* returned is the one of the first synonym that yields a value: the value, in
\* the most recent period column that holds a numeric observation, of the
\* first matching row with a numeric value in that column; nothing is returned
\* when no synonym yields a value. (Stated for the tables whose most recent
\* period column holds a numeric observation.)
C28_MetricSelection ==
    (/\ Applied("extract_metric")
     /\ \E i \in 1..2 : Numeric(probe.in[i].cells[2])) =>
        LET df == probe.in
            c == LatestNumericColumn(df)
        IN  probe.out[1] =
                FirstPresent(<<YieldOf(df, "Net Income", c),
                               YieldOf(df, "Net Income Loss", c),
                               YieldOf(df, "Profit Loss", c)>>)

\* C29. Numeric semantics: a fact is stored as a finite number or as absent,
\* and it is absent whenever the source value is missing, empty, not a number,
\* NaN or infinite, under the statement strategy and under the financials
\* accessor.
C29_FiniteOrAbsent ==
    /\ Applied("extract_metric") =>
          /\ probe.out[1] = None \/ IsFloat(probe.out[1])
          /\ (\A i \in 1..2 : \A col \in {1, 2} : ~Numeric(probe.in[i].cells[col]))
                => probe.out[1] = None
    /\ Applied("extract_metrics_from_obj") =>
          LET stored == Stored(probe.out[1].revenue)
          IN  /\ ~Numeric(probe.in.revenue) => probe.out[1].revenue = None
              /\ Numeric(probe.in.revenue) => stored = Some(probe.in.revenue[1])

\* Worker r takes the step.
Steps(r) == pc'[r] # pc[r] \/ task'[r] # task[r]

\* C30. Per-filing frame: a step of a run for filing F leaves the fact
\* records, the summary and the row of every other filing as they are, under
\* every interleaving; the rows a run holds pending all carry its own
\* filing_id, and the form of a filing never changes.
C30_PerFilingFrame ==
    [][/\ \A g \in FilingIds :
             (\A r \in Runs : Steps(r) => arg'[r] # g) =>
                 /\ RowsOf(metrics', g) = RowsOf(metrics, g)
                 /\ RowsOf(insiders', g) = RowsOf(insiders, g)
                 /\ RowsOf(events', g) = RowsOf(events, g)
                 /\ RowsOf(summaries', g) = RowsOf(summaries, g)
                 /\ filings'[g] = filings[g]
       /\ \A g \in FilingIds : filings'[g].form = filings[g].form
       /\ \A r \in Runs :
             \A row \in pend'[r].metrics \cup pend'[r].insiders
                            \cup pend'[r].events \cup pend'[r].summaries :
                 row.filing_id = arg'[r]]_vars

\* Runs for the two filings are interleaved: the run for filing 1 has
\* committed an InsiderTransaction while the run for filing 2 holds its
\* FinancialMetrics pending.
C30_InterleavedRuns ==
    \E r, q \in Runs :
        /\ Active(r) /\ arg[r] = 1 /\ Active(q) /\ arg[q] = 2
        /\ RowsOf(insiders, 1) # {}
        /\ pend[q].metrics # {}
        /\ RowsOf(metrics, 2) = {}

(* ------------------------------------------------------------ C21: sweep *)

\* A step that puts a task on the queue dispatches one task for each
\* filing with is_processed = false and none for a processed filing.
DispatchesPending ==
    (\E f \in FilingIds : queue'[f] > queue[f])
        => \A f \in FilingIds :
              queue'[f] = queue[f] + (IF filings[f].is_processed THEN 0 ELSE 1)

\* No step takes is_processed from true back to false.
StaysProcessed ==
    \A f \in FilingIds : filings[f].is_processed => filings'[f].is_processed

\* A run on filing f ends in the handler of _process_filing_content.
RaisesOn(f) == \E r \in Runs : arg[r] = f /\ HandleException(r)

============================================================================
